---- MODULE Spec2Model ----
(***************************************************************************)
(* Model of the IMA-ADPCM to PCM streaming decoder of server2.js:          *)
(* ADPCMDecoder (decodeSample, decode), ADPCMToPCMTransform (_transform)   *)
(* and the part of the /upload handler that builds one transform per       *)
(* uploaded file.                                                          *)
(***************************************************************************)
EXTENDS Integers, Sequences, FiniteSets, TLC

(* ------------------------------ bounds --------------------------------- *)
MaxCalls == 2      \* direct calls made on the standalone decoder
MaxBlock == 6      \* bytes in one block handed to decode
MaxPayload == 3    \* payload bytes of an uploaded file
MaxSeed == 1       \* header byte patterns 0..MaxSeed
MaxTime == 1       \* milliseconds the clock advances

(* --------------------------- program constants ------------------------- *)
HeaderLen == 44
PredictorMin == -32768
PredictorMax == 32767
StepIndexMax == 88

stepTable ==
  << 7, 8, 9, 10, 11, 12, 13, 14,
     16, 17, 19, 21, 23, 25, 28, 31,
     34, 37, 41, 45, 50, 55, 60, 66,
     73, 80, 88, 97, 107, 118, 130, 143,
     157, 173, 190, 209, 230, 253, 279, 307,
     337, 371, 408, 449, 494, 544, 598, 658,
     724, 796, 876, 963, 1060, 1166, 1282, 1411,
     1552, 1707, 1878, 2066, 2272, 2499, 2749, 3024,
     3327, 3660, 4026, 4428, 4871, 5358, 5894, 6484,
     7132, 7845, 8630, 9493, 10442, 11487, 12635, 13899,
     15289, 16818, 18500, 20350, 22385, 24623, 27086, 29794,
     32767 >>

indexTableSignedHalf ==
  << -1, -1, -1, -1, 2, 4, 6, 8,
     -1, -1, -1, -1, -2, -4, -6, -8 >>
indexTable ==
  << -1, -1, -1, -1, 2, 4, 6, 8,
     -1, -1, -1, -1, 2, 4, 6, 8 >>

(* ------------------------------ helpers -------------------------------- *)
Min(a, b) == IF a < b THEN a ELSE b
Max(a, b) == IF a > b THEN a ELSE b

\* (x & mask) # 0 for a one-bit mask 2^k
BitSet(x, mask) == (x \div mask) % 2 = 1

\* the sequence tables are 1-based, the arrays of the code 0-based
StepAt(i) == stepTable[i + 1]
IndexAt(code) == indexTable[code + 1]

(* --------------------------- ADPCMDecoder ------------------------------ *)
DifferenceNoBit1(step, code) ==
  (step \div 8)
  + (IF BitSet(code, 4) THEN step ELSE 0)
  + (IF BitSet(code, 2) THEN step \div 2 ELSE 0)
DifferenceShift2(step, code) ==
  (step \div 4)
  + (IF BitSet(code, 4) THEN step ELSE 0)
  + (IF BitSet(code, 2) THEN step \div 2 ELSE 0)
  + (IF BitSet(code, 1) THEN step \div 4 ELSE 0)
\* the local `difference` of decodeSample
Difference(step, code) ==
  (step \div 8)
  + (IF BitSet(code, 4) THEN step ELSE 0)
  + (IF BitSet(code, 2) THEN step \div 2 ELSE 0)
  + (IF BitSet(code, 1) THEN step \div 4 ELSE 0)

ClampPredictorNoLow(x) == Min(PredictorMax, x)
ClampPredictor(x) == Min(PredictorMax, Max(PredictorMin, x))

ClampStepIndex(x) == Min(StepIndexMax, Max(0, x))

NextStepIndex(s, code) == ClampStepIndex(s + IndexAt(code))

DecodeSampleAlwaysAdd(p, s, code) ==
  LET difference == Difference(StepAt(s), code)
      predictor == ClampPredictor(p + difference)
  IN [predictor |-> predictor, stepIndex |-> NextStepIndex(s, code),
      difference |-> difference, sample |-> predictor]
\* decodeSample(code) on a decoder whose fields are p, s: the new fields, the
\* local difference and the returned sample
DecodeSample(p, s, code) ==
  LET difference == Difference(StepAt(s), code)
      predictor == ClampPredictor(IF BitSet(code, 8) THEN p - difference
                                                     ELSE p + difference)
  IN [predictor |-> predictor, stepIndex |-> NextStepIndex(s, code),
      difference |-> difference, sample |-> predictor]

HighNibbleNoShift(byte) == byte % 16
HighNibble(byte) == (byte \div 16) % 16
LowNibble(byte) == byte % 16

\* the value an Int16Array element holds after it is assigned x
ToInt16(x) == ((x + 32768) % 65536) - 32768

\* pcmData[pcmOffset] = x: a typed array ignores a store past its end
Store(pcmData, pcmOffset, x) ==
  IF pcmOffset < Len(pcmData)
    THEN [pcmData EXCEPT ![pcmOffset + 1] = ToInt16(x)]
    ELSE pcmData

\* decode(adpcmData): the loop from index i (0-based) on; acc holds the decoder's
\* fields, pcmData and pcmOffset. pcmOffset = 2 * i throughout, so the second
\* test of the loop condition never decides: it only makes the accumulated
\* state be computed step by step
RECURSIVE DecodeFrom(_, _, _)
DecodeFrom(adpcmData, i, acc) ==
  IF ~(i < Len(adpcmData)) \/ acc.pcmOffset >= 2 * Len(adpcmData) THEN acc
  ELSE LET byte == adpcmData[i + 1]
           hi == DecodeSample(acc.predictor, acc.stepIndex, HighNibble(byte))
           lo == DecodeSample(hi.predictor, hi.stepIndex, LowNibble(byte))
       IN DecodeFrom(adpcmData, i + 1,
            [predictor |-> lo.predictor, stepIndex |-> lo.stepIndex,
             pcm |-> Store(Store(acc.pcm, acc.pcmOffset, hi.sample),
                           acc.pcmOffset + 1, lo.sample),
             pcmOffset |-> acc.pcmOffset + 2])

\* decode(adpcmData) on a decoder whose fields are p, s: the new fields and the
\* returned Int16Array
Decode(p, s, adpcmData) ==
  DecodeFrom(adpcmData, 0,
             [predictor |-> p, stepIndex |-> s,
              pcm |-> [j \in 1..(2 * Len(adpcmData)) |-> 0], pcmOffset |-> 0])

(* ------------------------- ADPCMToPCMTransform ------------------------- *)
SliceOffByOne(chunk, start) == SubSeq(chunk, start + 2, Len(chunk))
\* chunk.slice(start)
Slice(chunk, start) == SubSeq(chunk, start + 1, Len(chunk))

\* Buffer.alloc(n)
Alloc(n) == [j \in 1..n |-> 0]

\* source.copy(target, 0, 0, sourceEnd): the bytes of source that exist below
\* sourceEnd overwrite the start of target
CopyInto(target, source, sourceEnd) ==
  [j \in 1..Len(target) |->
     IF j <= Min(Len(source), sourceEnd) THEN source[j] ELSE target[j]]

\* buf.write(string, offset), buf.writeInt32LE / writeInt16LE(value, offset):
\* the given bytes overwrite buf from the 0-based offset on
WriteAt(buf, offset, bytes) ==
  [j \in 1..Len(buf) |->
     IF j > offset /\ j <= offset + Len(bytes) THEN bytes[j - offset] ELSE buf[j]]

Int16LE(v) == << v % 256, (v \div 256) % 256 >>
Int32LE(v) == << v % 256, (v \div 256) % 256, (v \div 65536) % 256, (v \div 16777216) % 256 >>

\* the character codes of the four tags
RIFF == << 82, 73, 70, 70 >>
WAVE == << 87, 65, 86, 69 >>
FMT == << 102, 109, 116, 32 >>
DATA == << 100, 97, 116, 97 >>

\* the fixed fields written over the copied header
WriteFields(h0) ==
  LET h1 == WriteAt(h0, 0, RIFF)
      h2 == WriteAt(h1, 8, WAVE)
      h3 == WriteAt(h2, 12, FMT)
      h4 == WriteAt(h3, 16, Int32LE(16))
      h5 == WriteAt(h4, 20, Int16LE(1))
      h6 == WriteAt(h5, 22, Int16LE(1))
      h7 == WriteAt(h6, 24, Int32LE(16000))
      h8 == WriteAt(h7, 28, Int32LE(32000))
      h9 == WriteAt(h8, 32, Int16LE(2))
      h10 == WriteAt(h9, 34, Int16LE(16))
  IN WriteAt(h10, 36, DATA)

BuildHeaderNoCopy(chunk) == WriteFields(Alloc(HeaderLen))
BuildHeaderCopyLast(chunk) == CopyInto(WriteFields(Alloc(HeaderLen)), chunk, HeaderLen)
\* the header pushed for a first chunk: allocated, filled from the chunk, then
\* the fixed fields written
BuildHeader(chunk) == WriteFields(CopyInto(Alloc(HeaderLen), chunk, HeaderLen))

BufferFromBE(pcm) ==
  [j \in 1..(2 * Len(pcm)) |-> Int16LE(pcm[(j + 1) \div 2] % 65536)[1 + (j % 2)]]
\* Buffer.from(pcmData.buffer): the bytes of the Int16Array, two per element,
\* low byte first
BufferFrom(pcm) ==
  [j \in 1..(2 * Len(pcm)) |-> Int16LE(pcm[(j + 1) \div 2] % 65536)[2 - (j % 2)]]

HeaderWrittenNotSet == FALSE
\* this.headerWritten after the header branch has run
HeaderWrittenAfterHeader == TRUE

DecodeDropLast(p, s, adpcmData) ==
  Decode(p, s, SubSeq(adpcmData, 1, Len(adpcmData) - 1))
DecodeFresh(p, s, adpcmData) == Decode(0, 0, adpcmData)
\* this.decoder.decode(data) as _transform uses it
DecoderDecode(p, s, adpcmData) == Decode(p, s, adpcmData)

\* _transform(chunk, encoding, callback) on a transform whose headerWritten is
\* hw and whose decoder has the fields p, s: the fields afterwards, the headers
\* and the PCM bytes pushed (headers first), and whether callback got an error
TransformChunk(hw, p, s, chunk) ==
  IF ~hw
    THEN LET header == BuildHeader(chunk)
             d == IF Len(chunk) > HeaderLen
                    THEN DecoderDecode(p, s, Slice(chunk, HeaderLen))
                    ELSE [predictor |-> p, stepIndex |-> s, pcm |-> << >>]
         IN [headerWritten |-> HeaderWrittenAfterHeader,
             predictor |-> d.predictor, stepIndex |-> d.stepIndex,
             headers |-> << header >>, pcm |-> BufferFrom(d.pcm), error |-> FALSE]
    ELSE LET d == DecoderDecode(p, s, chunk)
         IN [headerWritten |-> hw,
             predictor |-> d.predictor, stepIndex |-> d.stepIndex,
             headers |-> << >>, pcm |-> BufferFrom(d.pcm), error |-> FALSE]

(* ------------------------------- inputs -------------------------------- *)
Instances == {1, 2}
\* decoder objects: one per transform, and object 0, a decoder used on its own
Standalone == 0
DecoderIds == Instances \cup {Standalone}

\* an IMA-ADPCM WAV header as a recorder writes it (format tag 17, 4 bits)
AdpcmHeader ==
  << 82, 73, 70, 70, 40, 0, 0, 0, 87, 65, 86, 69, 102, 109, 116, 32,
     20, 0, 0, 0, 17, 0, 1, 0, 128, 62, 0, 0, 64, 31, 0, 0,
     0, 1, 4, 0, 100, 97, 116, 97, 4, 0, 0, 0 >>

\* header byte patterns: 0 the recorder's header, the others arbitrary bytes
Header(seed) ==
  IF seed = 0 THEN AdpcmHeader
  ELSE SubSeq([j \in 1..HeaderLen |-> (seed * 85 + 7 * j + 1) % 256], 1, HeaderLen)

PayloadPatterns == << << 0 >>, << 119, 127, 248, 8 >>, << 255, 143, 60 >> >>
Payload(k, n) ==
  SubSeq([j \in 1..n |-> PayloadPatterns[k][((j - 1) % Len(PayloadPatterns[k])) + 1]], 1, n)

ShortLens == {0, 10, 43}
Files ==
  { Header(seed) \o Payload(k, n) :
      seed \in 0..MaxSeed, k \in 1..Len(PayloadPatterns), n \in 0..MaxPayload }
  \cup { SubSeq(Header(seed), 1, n) : seed \in 0..MaxSeed, n \in ShortLens }

\* chunk lengths: the short ones split a payload at every position, the long
\* ones carry all or all but one byte of a header and up to a whole payload
ChunkLens == (1..MaxPayload) \cup ((HeaderLen - 1)..(HeaderLen + MaxPayload))

\* the inputs of the two concurrent uploads
PairFiles ==
  { SubSeq(Header(MaxSeed), 1, 10),
    Header(0) \o Payload(2, MaxPayload - 1),
    Header(MaxSeed) \o Payload(3, MaxPayload) }
PairLens == {1, HeaderLen, HeaderLen + 1}

\* the files uploaded to the server, each read back as a single chunk
ServerFiles == { Header(0), Header(0) \o Payload(2, MaxPayload) }

BlockBytes == {0, 119, 120, 255}
Blocks == { SubSeq([j \in 1..MaxBlock |-> b], 1, n) : b \in BlockBytes, n \in 1..MaxBlock }
Codes == 0..15

(* ------------------------------- state --------------------------------- *)
VARIABLES
  predictor,      \* predictor[d]: field of decoder object d
  stepIndex,      \* stepIndex[d]: field of decoder object d
  decoder,        \* decoder[i]: the decoder object of transform i
  headerWritten,  \* headerWritten[i]
  dataSize,       \* dataSize[i]
  started,        \* started[i]: the upload handler has built transform i
  file,           \* file[i]: the bytes of the uploaded file piped into transform i
  pos,            \* pos[i]: how many bytes of file[i] have been delivered
  firstLen,       \* firstLen[i]: length of the first chunk delivered (0: none yet)
  out,            \* out[i]: every byte transform i pushed, in order
  headerAt,       \* headerAt[i]: the offsets in out[i] at which a header was pushed
  cbError,        \* cbError[i]: some callback of _transform was given an error
  ended,          \* ended[i]: the read stream of upload i has ended
  hist,           \* one record per direct call on the standalone decoder
  ncalls,         \* direct calls made on the standalone decoder
  now,            \* Date.now()
  name,           \* name[i]: req.file.filename of upload i
  dir,            \* the uploads directory: file name -> size and mtime
  resp,           \* resp[i]: the responses sent to upload request i, in order
  failure,        \* failure[i]: the stream of upload i that emitted 'error'
  crashed,        \* the process died of an uncaught exception
  listed,         \* the last step answered GET /recordings
  listing         \* the body of that answer

vars == << predictor, stepIndex, decoder, headerWritten, dataSize, started, file,
           pos, firstLen, out, headerAt, cbError, ended, hist, ncalls,
           now, name, dir, resp, failure, crashed, listed, listing >>

decoderVars == << hist, ncalls >>
transformVars == << decoder, headerWritten, dataSize, started, file, pos, firstLen,
                    out, headerAt, cbError, ended >>

serverVars == << now, name, dir, resp, failure, crashed, listed, listing >>

SharedDecoderId(i) == 1
\* new ADPCMDecoder() in the constructor of transform i: an object of its own
NewDecoderId(i) == i

Init ==
  /\ predictor = [d \in DecoderIds |-> 0]
  /\ stepIndex = [d \in DecoderIds |-> 0]
  /\ decoder = [i \in Instances |-> Standalone]
  /\ headerWritten = [i \in Instances |-> FALSE]
  /\ dataSize = [i \in Instances |-> 0]
  /\ started = [i \in Instances |-> FALSE]
  /\ file = [i \in Instances |-> << >>]
  /\ pos = [i \in Instances |-> 0]
  /\ firstLen = [i \in Instances |-> 0]
  /\ out = [i \in Instances |-> << >>]
  /\ headerAt = [i \in Instances |-> << >>]
  /\ cbError = [i \in Instances |-> FALSE]
  /\ ended = [i \in Instances |-> FALSE]
  /\ hist = << >>
  /\ ncalls = 0
  /\ now = 0
  /\ name = [i \in Instances |-> << >>]
  /\ dir = << >>
  /\ resp = [i \in Instances |-> << >>]
  /\ failure = [i \in Instances |-> "none"]
  /\ crashed = FALSE
  /\ listed = FALSE
  /\ listing = {}

(* ------------------------ the decoder on its own ----------------------- *)
\* what one direct call did: the method, its argument, the fields before it,
\* the local difference (decodeSample only), the samples returned and the fields
\* after it
CallRecord(op, arg, difference, samples, p, s) ==
  [op |-> op, arg |-> arg, p0 |-> predictor[Standalone], s0 |-> stepIndex[Standalone],
   difference |-> difference, ret |-> samples, predictor |-> p, stepIndex |-> s]

\* decodeSample(code) called on the standalone decoder
DecodeSampleCall(code) ==
  /\ ncalls < MaxCalls
  /\ \E r \in {DecodeSample(predictor[Standalone], stepIndex[Standalone], code)} :
        /\ predictor' = [predictor EXCEPT ![Standalone] = r.predictor]
        /\ stepIndex' = [stepIndex EXCEPT ![Standalone] = r.stepIndex]
        /\ hist' = Append(hist, CallRecord("decodeSample", << code >>, r.difference,
                                           << r.sample >>, r.predictor, r.stepIndex))
  /\ ncalls' = ncalls + 1
  /\ UNCHANGED transformVars
  /\ UNCHANGED serverVars

\* decode(block) called on the standalone decoder
DecodeCall(block) ==
  /\ ncalls < MaxCalls
  /\ \E r \in {Decode(predictor[Standalone], stepIndex[Standalone], block)} :
        /\ predictor' = [predictor EXCEPT ![Standalone] = r.predictor]
        /\ stepIndex' = [stepIndex EXCEPT ![Standalone] = r.stepIndex]
        /\ hist' = Append(hist, CallRecord("decode", block, 0, r.pcm,
                                           r.predictor, r.stepIndex))
  /\ ncalls' = ncalls + 1
  /\ UNCHANGED transformVars
  /\ UNCHANGED serverVars

NextDecoder ==
  \/ \E code \in Codes : DecodeSampleCall(code)
  \/ \E block \in Blocks : DecodeCall(block)

SpecDecoder == Init /\ [][NextDecoder]_vars

(* ----------------------------- the uploads ----------------------------- *)
\* file names are sequences of the pieces the code concatenates and looks for
WavSuffix == ".wav"
PcmSuffix == << "_pcm", ".wav" >>

\* 'recording_' + Date.now() + '.wav'
FileName(t) == << "recording_", ToString(t), WavSuffix >>

\* file.endsWith('.wav')
EndsWithWav(n) == Len(n) >= 1 /\ n[Len(n)] = WavSuffix

\* n.replace('.wav', '_pcm.wav'): the first occurrence only
ReplaceWav(n) ==
  IF \E k \in 1..Len(n) : n[k] = WavSuffix
  THEN LET k == CHOOSE k \in 1..Len(n) :
                  /\ n[k] = WavSuffix
                  /\ \A j \in 1..(k - 1) : n[j] # WavSuffix
       IN SubSeq(n, 1, k - 1) \o PcmSuffix \o SubSeq(n, k + 1, Len(n))
  ELSE n

\* a file of the given size written at time t
FileStat(size, t) == [size |-> size, mtime |-> t]

\* the directory after file n is created or truncated with the given stat
PutFile(d, n, st) == [k \in DOMAIN d \cup {n} |-> IF k = n THEN st ELSE d[k]]

\* the directory after a write stream on file n has written up to offset len
WriteUpTo(d, n, len, t) ==
  PutFile(d, n, FileStat(IF n \in DOMAIN d /\ d[n].size > len THEN d[n].size ELSE len, t))

\* the stream of upload i is still flowing
Flowing(i) == ~crashed /\ failure[i] = "none"

NoListing == listed' = FALSE /\ listing' = {}

\* the /upload handler for a request with a file: multer stores the file f
\* under the name made from the clock, the handler opens the output file,
\* builds transform i (its constructor builds the decoder) and pipes the
\* stored file into it
Upload(i, f) ==
  /\ ~crashed
  /\ ~started[i]
  /\ name' = [name EXCEPT ![i] = FileName(now)]
  /\ dir' = PutFile(PutFile(dir, FileName(now), FileStat(Len(f), now)),
                    ReplaceWav(FileName(now)), FileStat(0, now))
  /\ UNCHANGED << now, resp, failure, crashed >>
  /\ NoListing
  /\ started' = [started EXCEPT ![i] = TRUE]
  /\ file' = [file EXCEPT ![i] = f]
  /\ decoder' = [decoder EXCEPT ![i] = NewDecoderId(i)]
  /\ predictor' = [predictor EXCEPT ![NewDecoderId(i)] = 0]
  /\ stepIndex' = [stepIndex EXCEPT ![NewDecoderId(i)] = 0]
  /\ headerWritten' = [headerWritten EXCEPT ![i] = FALSE]
  /\ dataSize' = [dataSize EXCEPT ![i] = 0]
  /\ UNCHANGED << pos, firstLen, out, headerAt, cbError, ended >>
  /\ UNCHANGED decoderVars

\* the read stream delivers the next n bytes of file[i] as one chunk,
\* _transform runs on it and the write stream writes what it pushed
Transform(i, n) ==
  /\ Flowing(i)
  /\ started[i] /\ ~ended[i]
  /\ n >= 1 /\ pos[i] + n <= Len(file[i])
  /\ \E d \in {decoder[i]} :
     \E r \in {TransformChunk(headerWritten[i], predictor[d], stepIndex[d],
                              SubSeq(file[i], pos[i] + 1, pos[i] + n))} :
        /\ predictor' = [predictor EXCEPT ![d] = r.predictor]
        /\ stepIndex' = [stepIndex EXCEPT ![d] = r.stepIndex]
        /\ headerWritten' = [headerWritten EXCEPT ![i] = r.headerWritten]
        /\ headerAt' = [headerAt EXCEPT ![i] =
                          IF r.headers = << >> THEN @ ELSE Append(@, Len(out[i]))]
        /\ out' = [out EXCEPT ![i] =
                          IF r.headers = << >> THEN @ \o r.pcm
                          ELSE @ \o r.headers[1] \o r.pcm]
        /\ dir' = WriteUpTo(dir, ReplaceWav(name[i]),
                            Len(out[i]) + Len(r.pcm)
                              + (IF r.headers = << >> THEN 0 ELSE Len(r.headers[1])),
                            now)
        /\ cbError' = [cbError EXCEPT ![i] = @ \/ r.error]
  /\ pos' = [pos EXCEPT ![i] = @ + n]
  /\ firstLen' = [firstLen EXCEPT ![i] = IF pos[i] = 0 THEN n ELSE @]
  /\ UNCHANGED << decoder, dataSize, started, file, ended >>
  /\ UNCHANGED << now, name, resp, failure, crashed >>
  /\ NoListing
  /\ UNCHANGED decoderVars

\* the read stream ends: the transform has no _flush and pushes nothing
EndOfStream(i) ==
  /\ Flowing(i)
  /\ started[i] /\ ~ended[i]
  /\ pos[i] = Len(file[i])
  /\ ended' = [ended EXCEPT ![i] = TRUE]
  /\ UNCHANGED << predictor, stepIndex, decoder, headerWritten, dataSize, started,
                  file, pos, firstLen, out, headerAt, cbError >>
  /\ UNCHANGED << now, name, dir, resp, failure, crashed >>
  /\ NoListing
  /\ UNCHANGED decoderVars

\* one upload, its file split into chunks
Next ==
  \/ \E f \in Files : Upload(1, f)
  \/ \E n \in ChunkLens : Transform(1, n)
  \/ EndOfStream(1)

Spec == Init /\ [][Next]_vars

\* two uploads whose chunks interleave
NextPair ==
  \/ \E i \in Instances : \E f \in PairFiles : Upload(i, f)
  \/ \E i \in Instances : \E n \in PairLens : Transform(i, n)
  \/ \E i \in Instances : EndOfStream(i)

SpecPair == Init /\ [][NextPair]_vars

(* ------------------------------ the server ----------------------------- *)
\* the clock advances by a millisecond
Tick ==
  /\ now < MaxTime
  /\ now' = now + 1
  /\ UNCHANGED << name, dir, resp, failure, crashed >>
  /\ NoListing
  /\ UNCHANGED transformVars
  /\ UNCHANGED << predictor, stepIndex >>
  /\ UNCHANGED decoderVars

\* res.json({message, originalFile, pcmFile})
Success(i) == [status |-> 200, originalFile |-> name[i], pcmFile |-> ReplaceWav(name[i])]
\* res.status(500).send('Error converting file')
ConversionError == [status |-> 500, originalFile |-> << >>, pcmFile |-> << >>]

\* the write stream of upload i emits 'finish' and its listener answers
Finish(i) ==
  /\ Flowing(i)
  /\ ended[i]
  /\ resp[i] = << >>
  /\ resp' = [resp EXCEPT ![i] = Append(@, Success(i))]
  /\ UNCHANGED << now, name, dir, failure, crashed >>
  /\ NoListing
  /\ UNCHANGED transformVars
  /\ UNCHANGED << predictor, stepIndex >>
  /\ UNCHANGED decoderVars

\* the write stream of upload i emits 'error' before it finished; its
\* listener answers 500
WriteError(i) ==
  /\ Flowing(i)
  /\ started[i]
  /\ resp[i] = << >>
  /\ failure' = [failure EXCEPT ![i] = "write"]
  /\ resp' = [resp EXCEPT ![i] = Append(@, ConversionError)]
  /\ UNCHANGED << now, name, dir, crashed >>
  /\ NoListing
  /\ UNCHANGED transformVars
  /\ UNCHANGED << predictor, stepIndex >>
  /\ UNCHANGED decoderVars

\* the read stream of upload i emits 'error' before it ended: no listener is
\* attached to it, so the event is thrown and nothing catches it
ReadError(i) ==
  /\ Flowing(i)
  /\ started[i] /\ ~ended[i]
  /\ failure' = [failure EXCEPT ![i] = "read"]
  /\ crashed' = TRUE
  /\ UNCHANGED << now, name, dir, resp >>
  /\ NoListing
  /\ UNCHANGED transformVars
  /\ UNCHANGED << predictor, stepIndex >>
  /\ UNCHANGED decoderVars

\* one element of the /recordings answer, for the directory entry n
Recording(d, n) ==
  [name |-> n,
   pcmName |-> ReplaceWav(n),
   originalSize |-> d[n].size,
   pcmSize |-> IF ReplaceWav(n) \in DOMAIN d THEN d[ReplaceWav(n)].size ELSE 0,
   timestamp |-> d[n].mtime]

\* files.filter(file => file.endsWith('.wav')).map(...)
Recordings(d) == { Recording(d, n) : n \in { m \in DOMAIN d : EndsWithWav(m) } }

\* GET /recordings
ListRecordings ==
  /\ ~crashed
  /\ listed' = TRUE
  /\ listing' = Recordings(dir)
  /\ UNCHANGED << now, name, dir, resp, failure, crashed >>
  /\ UNCHANGED transformVars
  /\ UNCHANGED << predictor, stepIndex >>
  /\ UNCHANGED decoderVars

\* the server: concurrent uploads, each stored file read back as one chunk
NextServer ==
  \/ Tick
  \/ \E i \in Instances : \E f \in ServerFiles : Upload(i, f)
  \/ \E i \in Instances : Transform(i, Len(file[i]) - pos[i])
  \/ \E i \in Instances : EndOfStream(i)
  \/ \E i \in Instances : Finish(i)
  \/ \E i \in Instances : WriteError(i)
  \/ \E i \in Instances : ReadError(i)
  \/ ListRecordings

SpecServer == Init /\ [][NextServer]_vars

\* a chunk of the file of upload i is ready to be delivered
CanDeliver(i) == Flowing(i) /\ started[i] /\ ~ended[i] /\ pos[i] < Len(file[i])

\* the event loop runs every callback that is ready: weak fairness of the
\* delivery of a chunk (with its enabling condition written out), of the end
\* of the read stream and of the write stream's 'finish'
Fairness ==
  \A i \in Instances :
    /\ []<>(~CanDeliver(i)) \/ []<><<pos'[i] # pos[i]>>_vars
    /\ WF_vars(EndOfStream(i))
    /\ WF_vars(Finish(i))

FairServer == SpecServer /\ Fairness

(* ======================= properties of the decoder ===================== *)
Last(seq) == seq[Len(seq)]
InSampleRange(x) == x >= -32768 /\ x <= 32767

\* C1: after any sequence of decodeSample / decode calls from {0, 0} the
\* predictor is in [-32768, 32767], the stepIndex in [0, 88], and every sample
\* returned is in [-32768, 32767]
C1_StateInRange ==
  /\ InSampleRange(predictor[Standalone])
  /\ stepIndex[Standalone] >= 0 /\ stepIndex[Standalone] <= 88
  /\ \A k \in 1..Len(hist) :
       /\ \A j \in 1..Len(hist[k].ret) : InSampleRange(hist[k].ret[j])
       /\ InSampleRange(hist[k].predictor)
       /\ hist[k].stepIndex \in 0..88

\* a decodeSample call whose unclamped predictor and step index both left the
\* range and were clamped to 32767 and 88
C1_Witness ==
  /\ hist # << >>
  /\ Last(hist).op = "decodeSample"
  /\ Last(hist).arg[1] = 7
  /\ Last(hist).p0 + Last(hist).difference > 32767
  /\ Last(hist).s0 + 8 > 88
  /\ predictor[Standalone] = 32767
  /\ stepIndex[Standalone] = 88

IsFirstCallWith(k, code) ==
  /\ hist[k].op = "decodeSample"
  /\ hist[k].arg = << code >>
  /\ hist[k].p0 = 0
  /\ hist[k].s0 = 0

\* C7 as stated: from {0, 0}, code 0xF computes difference 11, returns -11 as
\* the new predictor, and the stepIndex stays 0
C7_Original ==
  \A k \in 1..Len(hist) :
    IsFirstCallWith(k, 15) =>
      /\ hist[k].difference = 11
      /\ hist[k].ret = << -11 >>
      /\ hist[k].predictor = -11
      /\ hist[k].stepIndex = 0

\* C7 amended: from {0, 0}, code 0xF computes difference 11, returns -11 as the
\* new predictor, and the stepIndex becomes 8
C7_StepIndexBecomes8 ==
  \A k \in 1..Len(hist) :
    IsFirstCallWith(k, 15) =>
      /\ hist[k].difference = 11
      /\ hist[k].ret = << -11 >>
      /\ hist[k].predictor = -11
      /\ hist[k].stepIndex = 8

C7_Witness ==
  /\ Len(hist) = 1
  /\ IsFirstCallWith(1, 15)
  /\ predictor[Standalone] = -11

OnlyZeroBytes(k) == \A j \in 1..Len(hist[k].arg) : hist[k].arg[j] = 0

\* C8: as long as every code decoded so far is 0x0 (decodeSample(0), or decode of
\* blocks of 0x00 bytes of any length, in any number of calls), every sample
\* returned is 0 and the decoder is still at {0, 0}
C8_ZeroStaysZero ==
  (\A k \in 1..Len(hist) : OnlyZeroBytes(k)) =>
    /\ predictor[Standalone] = 0
    /\ stepIndex[Standalone] = 0
    /\ \A k \in 1..Len(hist) :
         /\ \A j \in 1..Len(hist[k].ret) : hist[k].ret[j] = 0
         /\ hist[k].op = "decodeSample" => hist[k].difference = 0

\* a decodeSample(0) followed by a decode of several 0x00 bytes
C8_Witness ==
  /\ Len(hist) = 2
  /\ hist[1].op = "decodeSample" /\ hist[1].arg = << 0 >>
  /\ hist[2].op = "decode" /\ Len(hist[2].arg) >= 2 /\ OnlyZeroBytes(2)
  /\ Len(hist[2].ret) = 2 * Len(hist[2].arg)

\* the chain of decodeSample calls over a sequence of codes, from the
\* fields p, s: the samples returned, in order, and the fields after the last
RECURSIVE ChainFrom(_, _, _)
ChainFrom(codes, k, acc) ==
  IF k > Len(codes) \/ Len(acc.samples) >= Len(codes) THEN acc
  ELSE LET r == DecodeSample(acc.predictor, acc.stepIndex, codes[k])
       IN ChainFrom(codes, k + 1,
            [predictor |-> r.predictor, stepIndex |-> r.stepIndex,
             samples |-> Append(acc.samples, r.sample)])

Chain(p, s, codes) ==
  ChainFrom(codes, 1, [predictor |-> p, stepIndex |-> s, samples |-> << >>])

\* the 4-bit codes of a byte sequence, for each byte the upper four bits and
\* then the lower four
NibblesOf(bytes) ==
  [j \in 1..(2 * Len(bytes)) |->
     IF j % 2 = 1 THEN (bytes[(j + 1) \div 2] \div 16) % 16
                  ELSE bytes[j \div 2] % 16]

\* C11: decode of k bytes returns exactly 2k samples; they are the samples of
\* decodeSample applied in turn to each byte's high nibble and then its low
\* nibble, every call starting from the fields the previous one left, and the
\* decoder is left with the fields of the last call
C11_TwoSamplesPerByte ==
  \A k \in 1..Len(hist) :
    hist[k].op = "decode" =>
      \E c \in {Chain(hist[k].p0, hist[k].s0, NibblesOf(hist[k].arg))} :
        /\ Len(hist[k].ret) = 2 * Len(hist[k].arg)
        /\ \A j \in 1..Len(hist[k].ret) : hist[k].ret[j] = c.samples[j]
        /\ hist[k].predictor = c.predictor
        /\ hist[k].stepIndex = c.stepIndex

\* decode of several bytes 0x78 (high nibble 7, low nibble 8) on a decoder that
\* an earlier call has moved
C11_Witness ==
  /\ Len(hist) = 2
  /\ hist[2].op = "decode"
  /\ Len(hist[2].arg) >= 2 /\ hist[2].arg[1] = 120
  /\ hist[2].p0 # 0 /\ hist[2].s0 # 0
  /\ hist[2].ret[1] > hist[2].p0
  /\ hist[2].ret[2] < hist[2].ret[1]

\* the algorithm of the specification, for a decoder with the fields p, s
RefBit(code, k) == (code \div (2 ^ k)) % 2
RefDifference(step, code) ==
  (step \div 8) + RefBit(code, 2) * step + RefBit(code, 1) * (step \div 2)
  + RefBit(code, 0) * (step \div 4)
RefClamp(x, lo, hi) == IF x < lo THEN lo ELSE IF x > hi THEN hi ELSE x
RefPredictor(p, s, code) ==
  RefClamp(IF RefBit(code, 3) = 1 THEN p - RefDifference(stepTable[s + 1], code)
                                  ELSE p + RefDifference(stepTable[s + 1], code),
           -32768, 32767)
RefStepIndex(s, code) == RefClamp(s + indexTable[code + 1], 0, 88)

\* C12: every decodeSample call, whatever the code and the fields it starts
\* from, computes the difference, the new predictor and the new stepIndex of the
\* reference algorithm and returns the new predictor
C12_MatchesReference ==
  \A k \in 1..Len(hist) :
    hist[k].op = "decodeSample" =>
      \E code \in {hist[k].arg[1]} :
        /\ hist[k].p0 \in -32768..32767 /\ hist[k].s0 \in 0..88
        /\ hist[k].difference = RefDifference(stepTable[hist[k].s0 + 1], code)
        /\ hist[k].predictor = RefPredictor(hist[k].p0, hist[k].s0, code)
        /\ hist[k].stepIndex = RefStepIndex(hist[k].s0, code)
        /\ hist[k].ret = << RefPredictor(hist[k].p0, hist[k].s0, code) >>

\* a call with sign bit and two magnitude bits set, from fields an earlier
\* decode moved, whose result is not clamped
C12_Witness ==
  /\ Len(hist) = 2
  /\ hist[1].op = "decode"
  /\ hist[2].op = "decodeSample" /\ hist[2].arg = << 13 >>
  /\ hist[2].p0 > 0 /\ hist[2].s0 > 8
  /\ hist[2].predictor = hist[2].p0 - hist[2].difference
  /\ hist[2].difference > 0

\* the code with the same magnitude bits and the other sign bit
Mirror(code) == (code + 8) % 16
\* +1 for a code that adds (0..7), -1 for one that subtracts (8..15)
Direction(code) == IF code < 8 THEN 1 ELSE -1

\* C21: for every decodeSample call made, the call with the mirrored code from
\* the same fields gives the same new stepIndex and the same difference, and
\* the two move the predictor by that difference in opposite directions, each
\* result then clamped to [-32768, 32767]
C21_SignSymmetry ==
  \A k \in 1..Len(hist) :
    hist[k].op = "decodeSample" =>
      \E code \in {hist[k].arg[1]} :
        \E m \in {DecodeSample(hist[k].p0, hist[k].s0, Mirror(code))} :
          /\ m.stepIndex = hist[k].stepIndex
          /\ m.difference = hist[k].difference
          /\ hist[k].difference >= 0
          /\ hist[k].predictor =
               RefClamp(hist[k].p0 + Direction(code) * hist[k].difference,
                        -32768, 32767)
          /\ m.predictor =
               RefClamp(hist[k].p0 - Direction(code) * hist[k].difference,
                        -32768, 32767)

\* a call with a subtracting code whose index step is positive, from fields an
\* earlier decode moved: it and its mirror land on different predictors, the
\* same distance below and above the start
C21_Witness ==
  /\ Len(hist) = 2
  /\ hist[1].op = "decode"
  /\ hist[2].op = "decodeSample" /\ hist[2].arg = << 14 >>
  /\ hist[2].p0 # 0 /\ hist[2].s0 > 0
  /\ hist[2].difference > 0
  /\ hist[2].predictor = hist[2].p0 - hist[2].difference
  /\ hist[2].stepIndex = hist[2].s0 + 6
  /\ DecodeSample(hist[2].p0, hist[2].s0, 6).predictor
       = hist[2].p0 + hist[2].difference

OneChunk(data) == TransformChunk(FALSE, 0, 0, data)

\* C3: when the first chunk holds the whole 44-byte header, the bytes pushed
\* and the decoder's fields after any split into chunks equal those of a fresh
\* transform given the same bytes as one chunk
C3_SplitEqualsWhole ==
  \A i \in Instances :
    (started[i] /\ firstLen[i] >= 44) =>
      \E r \in {OneChunk(SubSeq(file[i], 1, pos[i]))} :
        /\ out[i] = r.headers[1] \o r.pcm
        /\ predictor[decoder[i]] = r.predictor
        /\ stepIndex[decoder[i]] = r.stepIndex

\* header and one payload byte in the first chunk, two more payload bytes in
\* later chunks, the decoder moved
C3_Witness ==
  /\ ended[1]
  /\ firstLen[1] = 45
  /\ pos[1] = 47
  /\ predictor[decoder[1]] # 0
  /\ stepIndex[decoder[1]] # 0

\* C4 as stated: a stream of T >= 44 bytes, however split, yields exactly
\* 4 * (T - 44) PCM bytes after the 44-byte header
C4_PcmLength ==
  \A i \in Instances :
    (ended[i] /\ Len(file[i]) >= 44) =>
      Len(out[i]) = 44 + 4 * (Len(file[i]) - 44)

\* C5 as stated: a first chunk shorter than 44 bytes makes the transform report
\* an error and push nothing
C5_ShortFirstChunkFails ==
  \A i \in Instances :
    (firstLen[i] >= 1 /\ firstLen[i] < 44) =>
      (cbError[i] /\ out[i] = << >>)

\* little-endian reads of the output
U16(bytes, offset) == bytes[offset + 1] + 256 * bytes[offset + 2]
U32(bytes, offset) == U16(bytes, offset) + 65536 * U16(bytes, offset + 2)
Text(bytes, offset) == SubSeq(bytes, offset + 1, offset + 4)

\* C6: whatever the first chunk holds, the pushed header reads 'RIFF' at 0,
\* 'WAVE' at 8, 'fmt ' at 12, 16 at 16-19, format 1 at 20-21, 1 channel at
\* 22-23, 16000 at 24-27, 32000 at 28-31, block align 2 at 32-33, 16 bits at
\* 34-35 and 'data' at 36-39
C6_FixedHeaderFields ==
  \A i \in Instances :
    headerWritten[i] =>
      /\ Text(out[i], 0) = << 82, 73, 70, 70 >>
      /\ Text(out[i], 8) = << 87, 65, 86, 69 >>
      /\ Text(out[i], 12) = << 102, 109, 116, 32 >>
      /\ U32(out[i], 16) = 16
      /\ U16(out[i], 20) = 1
      /\ U16(out[i], 22) = 1
      /\ U32(out[i], 24) = 16000
      /\ U32(out[i], 28) = 32000
      /\ U16(out[i], 32) = 2
      /\ U16(out[i], 34) = 16
      /\ Text(out[i], 36) = << 100, 97, 116, 97 >>

\* a whole input header that has none of the fixed fields
C6_Witness ==
  /\ headerWritten[1]
  /\ firstLen[1] >= 44
  /\ Text(file[1], 0) # << 82, 73, 70, 70 >>
  /\ U16(file[1], 20) # 1
  /\ U32(file[1], 24) # 16000

(* ------------------ the transform, byte by byte ------------------------ *)
\* how many bytes of the first chunk the header branch took as the header
Consumed(i) == IF firstLen[i] < 44 THEN firstLen[i] ELSE 44
\* the bytes received after those, in arrival order
Fed(i) == SubSeq(file[i], Consumed(i) + 1, pos[i])
\* the samples decodeSample returns for them, from a fresh decoder
FedSamples(i) == Chain(0, 0, NibblesOf(Fed(i))).samples
\* the bytes pushed after the header
PcmOut(i) == SubSeq(out[i], 45, Len(out[i]))
\* the two's-complement bytes of a 16-bit value, low byte first
Bytes16(x) == << (x + 65536) % 256, ((x + 65536) \div 256) % 256 >>
\* the signed 16-bit value of two bytes, low byte first
Signed16(lo, hi) == IF hi >= 128 THEN lo + 256 * hi - 65536 ELSE lo + 256 * hi

EmittedInOrder ==
  \A i \in Instances :
    headerWritten[i] =>
      \E ss \in {FedSamples(i)} :
        /\ Len(PcmOut(i)) = 4 * Len(Fed(i))
        /\ \A k \in 1..Len(ss) :
             << out[i][44 + 2 * k - 1], out[i][44 + 2 * k] >> = Bytes16(ss[k])

AppendOnly ==
  \A i \in Instances :
    /\ Len(out'[i]) >= Len(out[i])
    /\ SubSeq(out'[i], 1, Len(out[i])) = out[i]
    /\ ended'[i] # ended[i] => out'[i] = out[i]

\* C13: after every chunk the output holds, after the header, the PCM bytes of
\* every byte received since the header was taken, four per byte, in arrival
\* order, each byte decoded once; every step only appends to the output, and
\* the end of the stream appends nothing
C13_NothingHeldBack == []EmittedInOrder /\ [][AppendOnly]_vars

\* payload in the first chunk and in later ones, all of it emitted at the end
C13_Witness ==
  /\ ended[1]
  /\ Len(file[1]) = 47
  /\ firstLen[1] = 45
  /\ Len(out[1]) = 44 + 12

\* C14: every sample is emitted as two bytes, low byte first, whose signed
\* 16-bit reading is the value decodeSample returned
C14_LittleEndianSamples ==
  \A i \in Instances :
    headerWritten[i] =>
      \E ss \in {FedSamples(i)} :
        /\ Len(PcmOut(i)) = 2 * Len(ss)
        /\ \A k \in 1..Len(ss) :
             Signed16(out[i][44 + 2 * k - 1], out[i][44 + 2 * k]) = ss[k]

\* an output with a negative sample and a positive one, neither of which
\* reads the same with its bytes swapped
C14_Witness ==
  /\ headerWritten[1]
  /\ firstLen[1] >= 44
  /\ \E k \in 1..(2 * Len(Fed(1))) :
       /\ out[1][44 + 2 * k] >= 128
       /\ out[1][44 + 2 * k - 1] # out[1][44 + 2 * k]
       /\ Signed16(out[1][44 + 2 * k - 1], out[1][44 + 2 * k]) < 0
  /\ \E k \in 1..(2 * Len(Fed(1))) :
       /\ out[1][44 + 2 * k] = 0
       /\ out[1][44 + 2 * k - 1] > 0

StartsAwaitingHeader ==
  \A i \in Instances : pos[i] = 0 => ~headerWritten[i]

TwoStateStep ==
  \A i \in Instances :
    /\ headerWritten[i] => headerWritten'[i]
    /\ pos'[i] # pos[i] => headerWritten'[i]
    /\ (headerWritten[i] /\ pos'[i] # pos[i]) =>
         \E c \in {Chain(predictor[decoder[i]], stepIndex[decoder[i]],
                         NibblesOf(SubSeq(file[i], pos[i] + 1, pos'[i])))} :
           /\ headerAt'[i] = headerAt[i]
           /\ Len(out'[i]) = Len(out[i]) + 4 * (pos'[i] - pos[i])
           /\ \A k \in 1..Len(c.samples) :
                Signed16(out'[i][Len(out[i]) + 2 * k - 1],
                         out'[i][Len(out[i]) + 2 * k]) = c.samples[k]
           /\ predictor'[decoder[i]] = c.predictor
           /\ stepIndex'[decoder[i]] = c.stepIndex

\* C16: headerWritten is false until the first chunk, true from the first chunk
\* on and never false again; once it is true a chunk of L bytes is decoded in
\* full from the decoder's current fields and appends exactly 4 * L bytes, and
\* no header
C16_TwoStates == []StartsAwaitingHeader /\ [][TwoStateStep]_vars

C16_Witness ==
  /\ headerWritten[1]
  /\ firstLen[1] = 44
  /\ pos[1] = 46
  /\ Len(out[1]) = 44 + 8
  /\ ~ended[1]

\* C17: bytes 4-7 and 40-43 of the pushed header are the bytes at those offsets
\* of the first chunk (0 where the chunk is shorter), however many PCM bytes
\* follow, and dataSize stays 0
C17_SizeFieldsCopied ==
  \A i \in Instances :
    /\ dataSize[i] = 0
    /\ headerWritten[i] =>
         \A k \in {5, 6, 7, 8, 41, 42, 43, 44} :
           out[i][k] = IF k <= firstLen[i] THEN file[i][k] ELSE 0

\* a whole input header with non-zero size fields that do not state the number
\* of PCM bytes emitted
C17_Witness ==
  /\ ended[1]
  /\ firstLen[1] >= 44
  /\ Len(out[1]) > 44
  /\ out[1][5] # 0 /\ out[1][41] # 0
  /\ SubSeq(out[1], 41, 44) # Int32LE(Len(out[1]) - 44)

UntouchedByHeader ==
  \A i \in Instances :
    (started[i] /\ pos[i] = firstLen[i] /\ firstLen[i] <= 44) =>
      (predictor[decoder[i]] = 0 /\ stepIndex[decoder[i]] = 0)

\* where the PCM bytes of input byte 45, the first payload byte, start
FirstPayloadAt(i) == Len(out[i]) - 4 * (pos[i] - 44)

FirstPayloadFromZero ==
  \A i \in Instances :
    (headerWritten[i] /\ pos[i] >= 45) =>
      \E c \in {Chain(0, 0, << (file[i][45] \div 16) % 16, file[i][45] % 16 >>)} :
        \E at \in {FirstPayloadAt(i)} :
          /\ Signed16(out[i][at + 1], out[i][at + 2]) = c.samples[1]
          /\ Signed16(out[i][at + 3], out[i][at + 4]) = c.samples[2]

OnlyDecodingMoves ==
  \A i \in Instances :
    (started[i] /\ (predictor'[decoder[i]] # predictor[decoder[i]]
                    \/ stepIndex'[decoder[i]] # stepIndex[decoder[i]])) =>
      /\ pos'[i] > pos[i]
      /\ headerWritten[i] \/ pos'[i] > 44

\* C18: a transform's decoder starts at {0, 0}; a first chunk of at most 44
\* bytes leaves it there; its fields change only in a step that hands bytes to
\* decode; and the first payload byte of the stream (input byte 45) is decoded
\* from {0, 0}
C18_HeaderLeavesDecoder ==
  [](UntouchedByHeader /\ FirstPayloadFromZero) /\ [][OnlyDecodingMoves]_vars

(* ===================== properties of the server ======================== *)
\* every upload made has been answered with the success JSON
AllCompleted ==
  /\ \E i \in Instances : started[i]
  /\ \A i \in Instances : started[i] => resp[i] = << Success(i) >>

\* the entry pairs upload i's stored file with its decoded file
PairsUpload(e, i) ==
  /\ started[i]
  /\ e.name = name[i]
  /\ e.pcmName = ReplaceWav(name[i])
  /\ e.originalSize = Len(file[i])
  /\ e.pcmSize = Len(out[i])

\* C15: a /recordings answer given when every upload has completed has only
\* entries that name an upload's stored file as name and its decoded file as
\* pcmName, with the sizes of the two; no decoded file is listed as an original
C15_ListingPairsUploads ==
  (listed /\ AllCompleted) =>
    \A e \in listing : \E i \in Instances : PairsUpload(e, i)

\* C19: every upload is eventually answered, never twice: with the success
\* JSON only after the output was written to the end, with 500 when a stream
\* of the pipeline failed
C19_ExactlyOneResponse ==
  \A i \in Instances :
    /\ [](Len(resp[i]) <= 1)
    /\ [](resp[i] = << Success(i) >> => (ended[i] /\ failure[i] = "none"))
    /\ [](resp[i] = << ConversionError >> => failure[i] # "none")
    /\ (started[i] ~> (Len(resp[i]) = 1))

\* C20: two uploads never have the same stored file name nor the same
\* decoded file name
C20_DistinctFileNames ==
  \A i, j \in Instances :
    (i # j /\ started[i] /\ started[j]) =>
      /\ name[i] # name[j]
      /\ ReplaceWav(name[i]) # ReplaceWav(name[j])

(* ===================== properties of two uploads ======================= *)
\* what transform i has pushed and its decoder's fields, had its chunks been
\* the only ones: its first chunk, then the bytes delivered since
Alone(i) ==
  LET a == OneChunk(SubSeq(file[i], 1, firstLen[i]))
      b == TransformChunk(a.headerWritten, a.predictor, a.stepIndex,
                          SubSeq(file[i], firstLen[i] + 1, pos[i]))
  IN IF pos[i] = firstLen[i]
       THEN [out |-> a.headers[1] \o a.pcm, predictor |-> a.predictor,
             stepIndex |-> a.stepIndex]
       ELSE [out |-> a.headers[1] \o a.pcm \o b.pcm, predictor |-> b.predictor,
             stepIndex |-> b.stepIndex]

IndependentState ==
  \A i \in Instances :
    (started[i] /\ pos[i] > 0) =>
      \E r \in {Alone(i)} :
        /\ out[i] = r.out
        /\ predictor[decoder[i]] = r.predictor
        /\ stepIndex[decoder[i]] = r.stepIndex

Acts(i) == started'[i] # started[i] \/ pos'[i] # pos[i] \/ ended'[i] # ended[i]

OthersUntouched ==
  \A i \in Instances : \A j \in Instances \ {i} :
    (Acts(i) /\ started[j]) =>
      /\ decoder'[j] = decoder[j]
      /\ predictor'[decoder[j]] = predictor[decoder[j]]
      /\ stepIndex'[decoder[j]] = stepIndex[decoder[j]]
      /\ headerWritten'[j] = headerWritten[j]
      /\ out'[j] = out[j]

\* C10: with two uploads in progress and their chunks interleaved in any order,
\* each transform's output and decoder fields are what its own chunks alone
\* produce, and a step of one transform leaves the other's predictor, stepIndex,
\* headerWritten and output unchanged
C10_Independent == []IndependentState /\ [][OthersUntouched]_vars

\* both uploads under way at once, each past its first chunk, in different
\* decoder states
C10_Witness ==
  /\ \A i \in Instances : started[i] /\ ~ended[i] /\ pos[i] > firstLen[i] /\ firstLen[i] > 0
  /\ decoder[1] # decoder[2]
  /\ predictor[decoder[1]] # predictor[decoder[2]]
  /\ predictor[decoder[1]] # 0 /\ predictor[decoder[2]] # 0

====
